---- MODULE Spec2Model ----
(***************************************************************************)
(* Model of the site generator of src/source/app.tsx: the description      *)
(* renderer (parseDescription), the image relocator (downloadImage), the   *)
(* orchestrator (generateSite) and the confirm handler of SitePicker that  *)
(* tracks completion.  The program runs on one event loop: every action of *)
(* the model is one uninterrupted turn of that loop.                       *)
(***************************************************************************)
EXTENDS Integers, Sequences, FiniteSets, TLC

\* ------------------------------------------------------------------ bounds
MaxSegs == 3       \* segments in a description drawn for SpecParse
MaxEpics == 2      \* epics of the objective
MaxStories == 2    \* stories of one epic
MaxConfirms == 1   \* times the user confirms in one execution (Spec)
MaxCalls == 2      \* calls of generateSite in one execution (SpecTwice)
MaxFaults == 2     \* failures the environment injects in one execution

\* ------------------------------------------------------------ descriptions
(* A description is a sequence of tokens.  "M" is a URL that starts with   *)
(* 'https://media.app.shortcut.com/', "O" a URL on any other host, "a" a   *)
(* run of plain text, "nl" a line break; a local reference                 *)
(* '/imgs/<filename>' is the token Local(filename).                        *)
Local(filename) == "/imgs/" \o ToString(filename)

Segment(kind) ==
    CASE kind = "media" -> <<"!", "[", "a", "]", "(", "M", ")">>
      [] kind = "other" -> <<"!", "[", "a", "]", "(", "O", ")">>
      [] kind = "paren" -> <<"(", "a", ")">>
      [] kind = "text"  -> <<"a">>
      [] kind = "nl"    -> <<"nl">>

SegmentKinds == {"media", "other", "paren", "text", "nl"}

RECURSIVE Flatten(_)
Flatten(segs) ==
    IF segs = <<>> THEN <<>> ELSE Segment(Head(segs)) \o Flatten(Tail(segs))

SegSeqs(n) == UNION {[1..m -> SegmentKinds] : m \in 0..n}

Max(S) == CHOOSE x \in S : \A y \in S : y <= x
Min(S) == CHOOSE x \in S : \A y \in S : x <= y

\* Statements in sequence: Step runs on the value the statements before it
\* produced, which is computed once.
AndThen(before, Step(_)) == CHOOSE after \in {Step(x) : x \in {before}} : TRUE

\* ------------------------------------------------- parseDescription (pure)
(* '.' of the pattern does not match a line break: a match lies in a line. *)
LineEnd(s, p) ==
    LET nls == {q \in p..Len(s) : s[q] = "nl"}
    IN  IF nls = {} THEN Len(s) ELSE Min(nls) - 1

\* The match of the image pattern (bang, bracketed alt, parenthesised src)
\* that starts at p, if any.  Both groups are greedy: alt runs to the last
\* "](" of the line that still leaves a non-empty src before a ")", and
\* src runs to the last ")" of the line.
MatchAt(s, p) ==
    IF p + 1 <= Len(s) /\ s[p] = "!" /\ s[p + 1] = "["
    THEN LET e  == LineEnd(s, p)
             ks == {k \in (p + 2)..e : s[k] = ")"}
             js == {j \in (p + 2)..(e - 1) :
                       /\ s[j] = "]"
                       /\ s[j + 1] = "("
                       /\ \E k \in ks : k >= j + 3}
         IN  IF js = {}
             THEN [ok |-> FALSE, j |-> 0, k |-> 0]
             ELSE [ok |-> TRUE, j |-> Max(js), k |-> Max(ks)]
    ELSE [ok |-> FALSE, j |-> 0, k |-> 0]

StartsWithMediaHost(src) == src # <<>> /\ src[1] = "M"

(* description.replace(pattern, callback) with the g and m flags: scans    *)
(* left to right; out is the text built so far, urls the src of every      *)
(* match handed to downloadImage so far, base the last filename in use.    *)
RECURSIVE Replace(_, _, _, _, _)
\* The callback of replace on the match m at p (alt is s[p+2..m.j-1], src is
\* s[m.j+2..m.k-1]), or one token copied when nothing matches at p.
ReplaceAt(s, p, out, urls, base, m) ==
    IF ~m.ok
    THEN Replace(s, p + 1, Append(out, s[p]), urls, base)
    ELSE IF StartsWithMediaHost(SubSeq(s, m.j + 2, m.k - 1))
    THEN Replace(s, m.k + 1,
                 out \o <<"!", "[">> \o SubSeq(s, p + 2, m.j - 1)
                     \o <<"]", "(", Local(base + Len(urls) + 1), ")">>,
                 Append(urls, SubSeq(s, m.j + 2, m.k - 1)), base)
    ELSE Replace(s, m.k + 1, out \o SubSeq(s, p, m.k), urls, base)

Replace(s, p, out, urls, base) ==
    IF p > Len(s) THEN [out |-> out, urls |-> urls]
    ELSE ReplaceAt(s, p, out, urls, base, MatchAt(s, p))

(* marked.parse on the tokens: an empty text gives an empty HTML, any      *)
(* other text a paragraph in which each image reference (alt to the first  *)
(* "](", URL to the first ")") becomes an img element.                     *)
RECURSIVE MarkedInline(_, _)
MarkedInline(s, p) ==
    IF p > Len(s) THEN <<>>
    ELSE LET e  == LineEnd(s, p)
             js == {j \in (p + 2)..(e - 1) : s[j] = "]" /\ s[j + 1] = "("}
             j  == Min(js)
             ks == {k \in (j + 3)..e : s[k] = ")"}
             k  == Min(ks)
         IN  IF /\ p + 1 <= Len(s) /\ s[p] = "!" /\ s[p + 1] = "["
                /\ js # {} /\ ks # {}
             THEN <<"<img src=">> \o SubSeq(s, j + 2, k - 1)
                      \o <<"alt=">> \o SubSeq(s, p + 2, j - 1) \o <<">">>
                      \o MarkedInline(s, k + 1)
             ELSE <<s[p]>> \o MarkedInline(s, p + 1)

MarkedParse(s) ==
    IF s = <<>> THEN <<>> ELSE <<"<p>">> \o MarkedInline(s, 1) \o <<"</p>">>

(* parseDescription without its effects: the HTML and the URLs it hands to *)
(* downloadImage, in order; the i-th of them gets filename base + i.       *)
Parsed(r) == [html |-> MarkedParse(r.out), urls |-> r.urls]

parseDescription(description, base) ==
    AndThen(Replace(description, 1, <<>>, <<>>, base), Parsed)

\* ------------------------------------------------------------------ state
VARIABLES
    remote,        \* what the Shortcut API returns for the objective (fixed in a run)
    disk,          \* the file system under ./sites
    nruns,         \* calls of generateSite made so far
    gen,           \* gen[r]: where call r of generateSite stands
    handler,       \* handler[r]: where the onConfirm call that made call r stands
    cb,            \* cb[r][e]: where the epics.forEach callback of call r, epic e stands
    images,        \* images[r]: context.images of call r, a sequence of job ids
    tracked,       \* tracked[r]: the promises handed to Promise.all by call r's handler
    jobs,          \* every image record made by downloadImage; its index is its filename
    isGenerating,  \* React state of SitePicker
    isDone,        \* React state of SitePicker
    alive,         \* the node process is running
    faults,        \* failures injected so far
    errs,          \* history: every error thrown or rejection raised
    wrote,         \* history: every page write, as [run, path, body]
    pdIn,          \* SpecParse: the description handed to parseDescription
    pdOut          \* SpecParse: what parseDescription returned

vars == <<remote, disk, nruns, gen, handler, cb, images, tracked, jobs,
          isGenerating, isDone, alive, faults, errs, wrote, pdIn, pdOut>>

Runs == 1..(MaxConfirms + MaxCalls)
Epics == 1..MaxEpics

\* A description the API leaves out (null or undefined).
Null == <<"null">>

\* The descriptions the objective's epics and stories carry in Spec.
Descriptions == {Null, <<>>, Segment("media")}

Stories(e) == 1..remote.stories[e]

\* Paths under ./sites/<name>/: <<>> is index.html, <<e>> is <e>/index.html,
\* <<e, s>> is <e>/<s>/index.html.
HomePath == <<>>
EpicPath(e) == <<e>>

\* Mutant: the directory of a story is made directly under the site, next to
\* the directories of the epics.
StoryPathUnderSite(e, s) == <<s>>

StoryPath(e, s) == <<e, s>>

AllPages ==
    {HomePath} \cup {EpicPath(e) : e \in Epics}
               \cup {StoryPath(e, s) : e \in Epics, s \in 1..MaxStories}

ObjectivePages ==
    {HomePath} \cup {EpicPath(e) : e \in Epics}
               \cup UNION {{StoryPath(e, s) : s \in Stories(e)} : e \in Epics}

NoDisk ==
    [sites |-> FALSE, site |-> FALSE, dirs |-> {}, imgsDir |-> FALSE,
     pages |-> {}, imgs |-> {}]

\* What an earlier execution of the program left behind.
StaleDisk ==
    [sites |-> TRUE, site |-> TRUE, dirs |-> {EpicPath(1)}, imgsDir |-> FALSE,
     pages |-> {[path |-> HomePath, nav |-> FALSE, body |-> <<"stale">>],
                [path |-> EpicPath(1), nav |-> FALSE, body |-> <<"stale">>]},
     imgs |-> {}]

PagePaths(d) == {pg.path : pg \in d.pages}

\* fs.writeFileSync of a page: creates the file or replaces its content.
WritePage(d, page) ==
    [d EXCEPT !.pages = {pg \in @ : pg.path # page.path} \cup {page}]

\* fs.rmSync(site, {recursive: true})
RemoveSite(d) ==
    [d EXCEPT !.site = FALSE, !.dirs = {}, !.imgsDir = FALSE,
              !.pages = {}, !.imgs = {}]

Settled(j) == jobs[j].st \in {"saved", "failed"}

\* A continuation that is ready to run as a microtask: the event loop runs
\* it before it takes any I/O completion or key press.
HandlerReady(r) ==
    \/ handler[r] = "awaitGenerate" /\ gen[r] \in {"resolved", "rejected"}
    \/ handler[r] = "tracking" /\ \A j \in tracked[r] : Settled(j)

MicrotaskPending == \E r \in Runs : HandlerReady(r)

\* An I/O completion or a key press can be taken.
Turn == alive /\ ~MicrotaskPending

CanFail == faults < MaxFaults

Err(r, scope, kind) == [run |-> r, scope |-> scope, kind |-> kind]

Wrote(r, page) == [run |-> r, path |-> page.path, body |-> page.body]

\* The program before the user confirms, with used of the environment's
\* failures spent and the stories' descriptions drawn from storyDescriptions.
Start(used, storyDescriptions) ==
    /\ remote \in [stories : [Epics -> 0..MaxStories],
                   epicDescription : Descriptions,
                   storyDescription : storyDescriptions]
    /\ disk \in {NoDisk, StaleDisk}
    /\ nruns = 0
    /\ gen = [r \in Runs |-> "none"]
    /\ handler = [r \in Runs |-> "none"]
    /\ cb = [r \in Runs |-> [e \in Epics |-> "none"]]
    /\ images = [r \in Runs |-> <<>>]
    /\ tracked = [r \in Runs |-> {}]
    /\ jobs = <<>>
    /\ isGenerating = FALSE
    /\ isDone = FALSE
    /\ alive = TRUE
    /\ faults = used
    /\ errs = {}
    /\ wrote = {}
    /\ pdIn = <<>>
    /\ pdOut = [called |-> FALSE, html |-> <<>>, urls |-> <<>>]

Init == Start(0, Descriptions)

\* ------------------------------------------------------------- generateSite
\* generateSite up to its first await: the getMilestone request is sent.
generateSiteCalled(r) ==
    /\ nruns' = r
    /\ gen' = [gen EXCEPT ![r] = "getMilestone"]
    /\ images' = [images EXCEPT ![r] = <<>>]

\* await client.getMilestone(...) returns or rejects.
getMilestoneReturns(r) ==
    /\ Turn
    /\ gen[r] = "getMilestone"
    /\ \/ /\ gen' = [gen EXCEPT ![r] = "listMilestoneEpics"]
          /\ UNCHANGED <<faults, errs>>
       \/ /\ CanFail
          /\ faults' = faults + 1
          /\ gen' = [gen EXCEPT ![r] = "rejected"]
          /\ errs' = errs \cup {Err(r, HomePath, "getMilestone")}
    /\ UNCHANGED <<remote, disk, nruns, handler, cb, images, tracked, jobs,
                   isGenerating, isDone, alive, wrote, pdIn, pdOut>>

\* The directory setup and the home page of generateSite, run on d; fault
\* names the step the environment fails ("none": no step).  A step that is
\* skipped cannot fail.
\* Mutant: the home page is written before the old site is removed.
SetupStepsHomeFirst == <<"mkdirSites", "writeHome", "rmSync", "mkdirSite">>

SetupSteps == <<"mkdirSites", "rmSync", "mkdirSite", "writeHome">>

HomePage == [path |-> HomePath, nav |-> FALSE, body |-> <<"a">>]

SetupRuns(d, step) ==
    CASE step = "mkdirSites" -> ~d.sites
      [] step = "rmSync"     -> d.site
      [] step = "mkdirSite"  -> TRUE
      [] step = "writeHome"  -> TRUE

SetupStep(d, step) ==
    CASE step = "mkdirSites" -> IF d.sites THEN d ELSE [d EXCEPT !.sites = TRUE]
      [] step = "rmSync"     -> IF d.site THEN RemoveSite(d) ELSE d
      [] step = "mkdirSite"  -> [d EXCEPT !.site = TRUE]
      [] step = "writeHome"  -> WritePage(d, HomePage)

\* err names the step that threw; home tells whether the home page was
\* written.
RECURSIVE SetupFrom(_, _, _, _)
SetupFrom(d, i, fault, home) ==
    IF i > Len(SetupSteps)
    THEN [disk |-> d, err |-> "none", home |-> home]
    ELSE IF SetupSteps[i] = fault /\ SetupRuns(d, fault)
    THEN [disk |-> d, err |-> fault, home |-> home]
    ELSE SetupFrom(SetupStep(d, SetupSteps[i]), i + 1, fault,
                   home \/ SetupSteps[i] = "writeHome")

Setup(d, fault) == SetupFrom(d, 1, fault, FALSE)

\* ------------------------------------------- downloadImage, parseDescription
\* The records downloadImage makes for urls while path is rendered: each has
\* a fresh filename, and its downloadImg() has sent the fetch request and is
\* pending.
\* Mutant: downloadImage awaits its download, so the record it returns is
\* already settled.
NewJobsAwaited(r, path, urls, base) ==
    [i \in 1..Len(urls) |->
        [run |-> r, url |-> urls[i], filename |-> base + i, page |-> path,
         st |-> "saved"]]

NewJobs(r, path, urls, base) ==
    [i \in 1..Len(urls) |->
        [run |-> r, url |-> urls[i], filename |-> base + i, page |-> path,
         st |-> "pending"]]

NoFault == [kind |-> "none", path |-> <<>>]

\* A synchronous block works on st: the disk, the records, context.images of
\* the run, the pages it wrote and the HTML of its last render; err names
\* what it threw (scope: while working on which page), injected whether the
\* environment's fault was hit.
\* Mutant: the block appends to a collection of its own, which replaces the
\* one of the context when the block ends.
BlockOwnImages(d, js, imgs) ==
    [disk |-> d, jobs |-> js, images |-> <<>>, wrote |-> {}, html |-> <<>>,
     err |-> "none", scope |-> <<>>, injected |-> FALSE]

Block(d, js, imgs) ==
    [disk |-> d, jobs |-> js, images |-> imgs, wrote |-> {}, html |-> <<>>,
     err |-> "none", scope |-> <<>>, injected |-> FALSE]

Throw(st, kind, path, injected) ==
    [st EXCEPT !.err = kind, !.scope = path, !.injected = injected]

\* parseDescription(site, description) with the effects of its downloadImage
\* calls.  null.replace throws a TypeError; the first downloadImage of a site
\* creates imgs/, which can fail.
downloadImages(st, r, path, pd, fault) ==
    IF pd.urls = <<>> THEN [st EXCEPT !.html = pd.html]
    ELSE IF ~st.disk.imgsDir /\ fault = [kind |-> "mkdirImgs", path |-> path]
    THEN Throw(st, "mkdirImgs", path, TRUE)
    ELSE [st EXCEPT !.disk.imgsDir = TRUE,
                    !.jobs = @ \o NewJobs(r, path, pd.urls, Len(st.jobs)),
                    !.images = @ \o [i \in 1..Len(pd.urls) |-> Len(st.jobs) + i],
                    !.html = pd.html]

Render(st, r, path, description, fault) ==
    IF st.err # "none" THEN st
    ELSE IF description = Null THEN Throw(st, "TypeError", path, FALSE)
    ELSE AndThen(parseDescription(description, Len(st.jobs)),
                 LAMBDA pd : downloadImages(st, r, path, pd, fault))

\* fs.mkdirSync(path): throws when the directory exists.
Mkdir(st, path, kind, fault) ==
    IF st.err # "none" THEN st
    ELSE IF path \in st.disk.dirs THEN Throw(st, kind, path, FALSE)
    ELSE IF fault = [kind |-> "mkdir", path |-> path] THEN Throw(st, kind, path, TRUE)
    ELSE [st EXCEPT !.disk.dirs = @ \cup {path}]

\* fs.writeFileSync(path/index.html, `...${parseDescription(...)}...`)
WriteRendered(st, path, nav, kind, fault) ==
    IF st.err # "none" THEN st
    ELSE IF fault = [kind |-> "write", path |-> path] THEN Throw(st, kind, path, TRUE)
    ELSE [st EXCEPT
             !.disk = WritePage(@, [path |-> path, nav |-> nav, body |-> st.html]),
             !.wrote = @ \cup {[path |-> path, nav |-> nav, body |-> st.html]}]

RenderAndWrite(st, r, path, description, nav, kind, fault) ==
    AndThen(Render(st, r, path, description, fault),
            LAMBDA rendered : WriteRendered(rendered, path, nav, kind, fault))

\* story.description || ''
OrEmpty(description) == IF description = Null THEN <<>> ELSE description

\* stories.forEach(story => {mkdirSync; writeFileSync}) from story s on.
StoryPage(st, r, e, s, fault) ==
    AndThen(Mkdir(st, StoryPath(e, s), "mkdirStory", fault),
            LAMBDA made :
                RenderAndWrite(made, r, StoryPath(e, s),
                               OrEmpty(remote.storyDescription), FALSE,
                               "writeStory", fault))

RECURSIVE StoryPages(_, _, _, _, _)
\* Mutant: only the first story of an epic gets its page.
StoryPagesFirstOnly(st, r, e, s, fault) ==
    IF s > Min({1, remote.stories[e]}) \/ st.err # "none" THEN st
    ELSE AndThen(StoryPage(st, r, e, s, fault),
                 LAMBDA written : StoryPages(written, r, e, s + 1, fault))

StoryPages(st, r, e, s, fault) ==
    IF s > remote.stories[e] \/ st.err # "none" THEN st
    ELSE AndThen(StoryPage(st, r, e, s, fault),
                 LAMBDA written : StoryPages(written, r, e, s + 1, fault))

\* The body of the epics.forEach callback after its two awaits: the epic's
\* directory and page, then its stories' directories and pages.
\* Mutant: the story navigation is emitted whatever the story count.
EpicPageNavAlways(st, r, e, fault) ==
    AndThen(Mkdir(st, EpicPath(e), "mkdirEpic", fault),
            LAMBDA made :
                RenderAndWrite(made, r, EpicPath(e), remote.epicDescription,
                               TRUE, "writeEpic", fault))

EpicPage(st, r, e, fault) ==
    AndThen(Mkdir(st, EpicPath(e), "mkdirEpic", fault),
            LAMBDA made :
                RenderAndWrite(made, r, EpicPath(e), remote.epicDescription,
                               remote.stories[e] # 0, "writeEpic", fault))

\* Mutant: the story pages are written before the page of their epic.
EpicSubtreeStoriesFirst(st, r, e, fault) ==
    AndThen(StoryPages(st, r, e, 1, fault),
            LAMBDA written : EpicPage(written, r, e, fault))

EpicSubtree(st, r, e, fault) ==
    AndThen(EpicPage(st, r, e, fault),
            LAMBDA written : StoryPages(written, r, e, 1, fault))

SubtreeFaults(e) ==
    {NoFault} \cup
    {[kind |-> k, path |-> p] :
        k \in {"mkdir", "mkdirImgs", "write"},
        p \in {EpicPath(e)} \cup {StoryPath(e, s) : s \in Stories(e)}}

\* An environment fault may be chosen when the budget allows it and the
\* block runs into it.
FaultTaken(fault, none, injected) ==
    IF fault = none THEN ~injected ELSE CanFail /\ injected

\* A rejection of a promise nobody awaits (the callbacks' promises are
\* dropped by forEach).  The program calls the global fetch, so it runs on a
\* node that by default ends the process on an unhandled rejection; started
\* with --unhandled-rejections=warn it goes on.
UnhandledRejection == alive' \in BOOLEAN

\* generateSite after its setup block ended as res: it has thrown, which
\* rejects its promise, or it goes on to epics.forEach, whose callbacks each
\* run to their first await, and returns.
SetupEnds(r, fault, res) ==
    /\ FaultTaken(fault, "none", res.err # "none")
    /\ disk' = res.disk
    /\ wrote' = IF res.home THEN wrote \cup {Wrote(r, HomePage)} ELSE wrote
    /\ IF res.err = "none"
       THEN /\ gen' = [gen EXCEPT ![r] = "resolved"]
            /\ cb' = [cb EXCEPT ![r] = [e \in Epics |-> "getEpic"]]
            /\ UNCHANGED <<faults, errs>>
       ELSE /\ gen' = [gen EXCEPT ![r] = "rejected"]
            /\ faults' = faults + 1
            /\ errs' = errs \cup {Err(r, HomePath, res.err)}
            /\ UNCHANGED cb

\* await client.listMilestoneEpics(...) returns or rejects; on return the
\* rest of generateSite runs without a break: the directory setup, the home
\* page, and every callback of epics.forEach up to its first await.
listMilestoneEpicsReturns(r) ==
    /\ Turn
    /\ gen[r] = "listMilestoneEpics"
    /\ \/ /\ CanFail
          /\ faults' = faults + 1
          /\ gen' = [gen EXCEPT ![r] = "rejected"]
          /\ errs' = errs \cup {Err(r, HomePath, "listMilestoneEpics")}
          /\ UNCHANGED <<disk, cb, wrote>>
       \/ \E fault \in {"none"} \cup {SetupSteps[i] : i \in 1..Len(SetupSteps)} :
            \E res \in {Setup(disk, fault)} : SetupEnds(r, fault, res)
    /\ UNCHANGED <<remote, nruns, handler, images, tracked, jobs,
                   isGenerating, isDone, alive, pdIn, pdOut>>

\* await client.getEpic(epic.id) of the callback for epic e returns or rejects.
\* Mutant: the epics are taken in order, each after the one before it has
\* ended (a loop that awaits each epic).
getEpicReturnsInOrder(r, e) ==
    /\ Turn
    /\ cb[r][e] = "getEpic"
    /\ \A before \in 1..(e - 1) : cb[r][before] \in {"returned", "rejected"}
    /\ \/ /\ cb' = [cb EXCEPT ![r][e] = "listEpicStories"]
          /\ UNCHANGED <<faults, errs, alive>>
       \/ /\ CanFail
          /\ faults' = faults + 1
          /\ cb' = [cb EXCEPT ![r][e] = "rejected"]
          /\ errs' = errs \cup {Err(r, EpicPath(e), "getEpic")}
          /\ UnhandledRejection
    /\ UNCHANGED <<remote, disk, nruns, gen, handler, images, tracked, jobs,
                   isGenerating, isDone, wrote, pdIn, pdOut>>

\* Mutant: generateSite awaits the callbacks, so a rejection of getEpic
\* rejects the promise of generateSite.
getEpicReturnsAwaited(r, e) ==
    /\ Turn
    /\ cb[r][e] = "getEpic"
    /\ \/ /\ cb' = [cb EXCEPT ![r][e] = "listEpicStories"]
          /\ UNCHANGED <<faults, errs, gen>>
       \/ /\ CanFail
          /\ faults' = faults + 1
          /\ cb' = [cb EXCEPT ![r][e] = "rejected"]
          /\ errs' = errs \cup {Err(r, EpicPath(e), "getEpic")}
          /\ gen' = [gen EXCEPT ![r] = "rejected"]
    /\ UNCHANGED <<remote, disk, nruns, handler, images, tracked, jobs,
                   isGenerating, isDone, alive, wrote, pdIn, pdOut>>

getEpicReturns(r, e) ==
    /\ Turn
    /\ cb[r][e] = "getEpic"
    /\ \/ /\ cb' = [cb EXCEPT ![r][e] = "listEpicStories"]
          /\ UNCHANGED <<faults, errs, alive>>
       \/ /\ CanFail
          /\ faults' = faults + 1
          /\ cb' = [cb EXCEPT ![r][e] = "rejected"]
          /\ errs' = errs \cup {Err(r, EpicPath(e), "getEpic")}
          /\ UnhandledRejection
    /\ UNCHANGED <<remote, disk, nruns, gen, handler, images, tracked, jobs,
                   isGenerating, isDone, wrote, pdIn, pdOut>>

\* The callback for epic e after its block ended as st: it returns, or it has
\* thrown, which rejects a promise nobody holds.
SubtreeEnds(r, e, fault, st) ==
    /\ FaultTaken(fault, NoFault, st.injected)
    /\ disk' = st.disk
    /\ jobs' = st.jobs
    /\ images' = [images EXCEPT ![r] = st.images]
    /\ wrote' = wrote \cup {Wrote(r, page) : page \in st.wrote}
    /\ faults' = IF st.injected THEN faults + 1 ELSE faults
    /\ IF st.err = "none"
       THEN /\ cb' = [cb EXCEPT ![r][e] = "returned"]
            /\ UNCHANGED <<errs, alive>>
       ELSE /\ cb' = [cb EXCEPT ![r][e] = "rejected"]
            /\ errs' = errs \cup {Err(r, st.scope, st.err)}
            /\ UnhandledRejection

\* await client.listEpicStories(epic.id, ...) returns or rejects; on return
\* the callback writes the epic's subtree without a break.
listEpicStoriesReturns(r, e) ==
    /\ Turn
    /\ cb[r][e] = "listEpicStories"
    /\ \/ /\ CanFail
          /\ faults' = faults + 1
          /\ cb' = [cb EXCEPT ![r][e] = "rejected"]
          /\ errs' = errs \cup {Err(r, EpicPath(e), "listEpicStories")}
          /\ UnhandledRejection
          /\ UNCHANGED <<disk, jobs, images, wrote>>
       \/ \E fault \in SubtreeFaults(e), st \in {Block(disk, jobs, images[r])} :
            \E ended \in {EpicSubtree(st, r, e, fault)} :
                SubtreeEnds(r, e, fault, ended)
    /\ UNCHANGED <<remote, nruns, gen, handler, tracked,
                   isGenerating, isDone, pdIn, pdOut>>

\* ------------------------------------------------- downloadImage.downloadImg
\* downloadImg runs to its end: the fetch and the read of the body have come
\* back and the bytes are written to imgs/<filename>.  Nothing another step
\* reads changes between its two awaits, so they are one step.  A transport
\* error, a response that is not ok and a failed write (imgs/ gone, or the
\* environment) all throw, and the catch of downloadImg swallows them: the
\* promise is fulfilled either way.
\* Mutant: the check of res.ok is missing, so the body of a response that
\* is not ok is written to imgs/<filename> like any other.
downloadImgUnchecked(j) ==
    /\ Turn
    /\ jobs[j].st = "pending"
    /\ \/ /\ disk.imgsDir
          /\ jobs' = [jobs EXCEPT ![j].st = "saved"]
          /\ disk' = [disk EXCEPT !.imgs = @ \cup {jobs[j].filename}]
          /\ UNCHANGED <<faults, errs>>
       \/ /\ ~disk.imgsDir
          /\ jobs' = [jobs EXCEPT ![j].st = "failed"]
          /\ errs' = errs \cup {Err(jobs[j].run, jobs[j].page, "writeImage")}
          /\ UNCHANGED <<faults, disk>>
       \/ /\ CanFail
          /\ faults' = faults + 1
          /\ jobs' = [jobs EXCEPT ![j].st = "failed"]
          /\ \E kind \in {"fetch", "notOk", "writeImage"} :
                /\ errs' = errs \cup {Err(jobs[j].run, jobs[j].page, kind)}
                /\ disk' = IF kind = "notOk" /\ disk.imgsDir
                           THEN [disk EXCEPT !.imgs = @ \cup {jobs[j].filename}]
                           ELSE disk
    /\ UNCHANGED <<remote, nruns, gen, handler, cb, images, tracked,
                   isGenerating, isDone, alive, wrote, pdIn, pdOut>>

\* Mutant: downloadImg has no catch, so a failed download rejects its
\* promise, which nobody handles.
downloadImgRethrows(j) ==
    /\ Turn
    /\ jobs[j].st = "pending"
    /\ \/ /\ disk.imgsDir
          /\ jobs' = [jobs EXCEPT ![j].st = "saved"]
          /\ disk' = [disk EXCEPT !.imgs = @ \cup {jobs[j].filename}]
          /\ UNCHANGED <<faults, errs, alive>>
       \/ /\ ~disk.imgsDir
          /\ jobs' = [jobs EXCEPT ![j].st = "failed"]
          /\ errs' = errs \cup {Err(jobs[j].run, jobs[j].page, "writeImage")}
          /\ UnhandledRejection
          /\ UNCHANGED <<faults, disk>>
       \/ /\ CanFail
          /\ faults' = faults + 1
          /\ jobs' = [jobs EXCEPT ![j].st = "failed"]
          /\ \E kind \in {"fetch", "notOk", "writeImage"} :
                errs' = errs \cup {Err(jobs[j].run, jobs[j].page, kind)}
          /\ UnhandledRejection
          /\ UNCHANGED disk
    /\ UNCHANGED <<remote, nruns, gen, handler, cb, images, tracked,
                   isGenerating, isDone, wrote, pdIn, pdOut>>

downloadImg(j) ==
    /\ Turn
    /\ jobs[j].st = "pending"
    /\ \/ /\ disk.imgsDir
          /\ jobs' = [jobs EXCEPT ![j].st = "saved"]
          /\ disk' = [disk EXCEPT !.imgs = @ \cup {jobs[j].filename}]
          /\ UNCHANGED <<faults, errs>>
       \/ /\ ~disk.imgsDir
          /\ jobs' = [jobs EXCEPT ![j].st = "failed"]
          /\ errs' = errs \cup {Err(jobs[j].run, jobs[j].page, "writeImage")}
          /\ UNCHANGED <<faults, disk>>
       \/ /\ CanFail
          /\ faults' = faults + 1
          /\ jobs' = [jobs EXCEPT ![j].st = "failed"]
          /\ \E kind \in {"fetch", "notOk", "writeImage"} :
                errs' = errs \cup {Err(jobs[j].run, jobs[j].page, kind)}
          /\ UNCHANGED disk
    /\ UNCHANGED <<remote, nruns, gen, handler, cb, images, tracked,
                   isGenerating, isDone, alive, wrote, pdIn, pdOut>>

\* ------------------------------------------------------ SitePicker.onConfirm
\* The user confirms; ConfirmInput is rendered as long as isDone is false.
\* The handler runs to its await of generateSite(context).
onConfirm ==
    /\ Turn
    /\ ~isDone
    /\ nruns < MaxConfirms
    /\ isGenerating' = TRUE
    /\ handler' = [handler EXCEPT ![nruns + 1] = "awaitGenerate"]
    /\ generateSiteCalled(nruns + 1)
    /\ UNCHANGED <<remote, disk, cb, tracked, jobs, isDone, alive, faults,
                   errs, wrote, pdIn, pdOut>>

Range(f) == {f[i] : i \in DOMAIN f}

\* The handler resumes after await generateSite(context): it hands the
\* promises now in context.images to Promise.all, or, on a rejection, runs
\* its catch.
\* Mutant: the handler has no try around its await, so it goes on to
\* Promise.all whether generateSite resolved or rejected.
awaitGenerateResumesUncaught(r) ==
    /\ alive
    /\ handler[r] = "awaitGenerate"
    /\ gen[r] \in {"resolved", "rejected"}
    /\ handler' = [handler EXCEPT ![r] = "tracking"]
    /\ tracked' = [tracked EXCEPT ![r] = Range(images[r])]
    /\ UNCHANGED <<remote, disk, nruns, gen, cb, images, jobs, isGenerating,
                   isDone, alive, faults, errs, wrote, pdIn, pdOut>>

awaitGenerateResumes(r) ==
    /\ alive
    /\ handler[r] = "awaitGenerate"
    /\ \/ /\ gen[r] = "resolved"
          /\ handler' = [handler EXCEPT ![r] = "tracking"]
          /\ tracked' = [tracked EXCEPT ![r] = Range(images[r])]
          /\ UNCHANGED isGenerating
       \/ /\ gen[r] = "rejected"
          /\ handler' = [handler EXCEPT ![r] = "caught"]
          /\ isGenerating' = FALSE
          /\ UNCHANGED tracked
    /\ UNCHANGED <<remote, disk, nruns, gen, cb, images, jobs, isDone, alive,
                   faults, errs, wrote, pdIn, pdOut>>

\* The then-callback of Promise.all: setIsDone(true); context.images = [].
allSettled(r) ==
    /\ alive
    /\ handler[r] = "tracking"
    /\ \A j \in tracked[r] : Settled(j)
    /\ handler' = [handler EXCEPT ![r] = "done"]
    /\ isDone' = TRUE
    /\ images' = [images EXCEPT ![r] = <<>>]
    /\ UNCHANGED <<remote, disk, nruns, gen, cb, tracked, jobs, isGenerating,
                   alive, faults, errs, wrote, pdIn, pdOut>>

\* ------------------------------------------------------------ specifications
Work ==
    \/ \E r \in Runs : getMilestoneReturns(r)
    \/ \E r \in Runs : listMilestoneEpicsReturns(r)
    \/ \E r \in Runs, e \in Epics : getEpicReturns(r, e)
    \/ \E r \in Runs, e \in Epics : listEpicStoriesReturns(r, e)
    \/ \E j \in DOMAIN jobs : downloadImg(j)

Next ==
    \/ onConfirm
    \/ \E r \in Runs : awaitGenerateResumes(r)
    \/ \E r \in Runs : allSettled(r)
    \/ Work

\* The program as the user drives it.
Spec == Init /\ [][Next]_vars

\* The user confirms once.  Every request that is sent gets its answer and
\* every continuation runs, except that the requests of the callback for
\* epic 1 may stay unanswered for ever; the environment fails nothing.
confirmOnce ==
    /\ nruns = 0
    /\ onConfirm

\* The epic whose requests may stay unanswered: the first of the objective.
HungEpic == Min(Epics)

InitHang == Start(MaxFaults, Descriptions)

NextHang ==
    \/ confirmOnce
    \/ \E r \in Runs : awaitGenerateResumes(r)
    \/ \E r \in Runs : allSettled(r)
    \/ Work

\* The continuations of the call and of the handler run one after the other,
\* the callbacks of different epics side by side.
Mainline(r) ==
    \/ getMilestoneReturns(r)
    \/ listMilestoneEpicsReturns(r)
    \/ awaitGenerateResumes(r)
    \/ allSettled(r)

Callback(e) ==
    \E r \in Runs : getEpicReturns(r, e) \/ listEpicStoriesReturns(r, e)

FairHang ==
    /\ WF_vars(\E r \in Runs : Mainline(r))
    /\ \A e \in Epics \ {HungEpic} : WF_vars(Callback(e))
    /\ WF_vars(\E j \in DOMAIN jobs : downloadImg(j))

SpecHang == InitHang /\ [][NextHang]_vars /\ FairHang

\* The user confirms once, every request and every download that is sent
\* comes back, successfully or not, and every continuation runs.
FairLive ==
    /\ WF_vars(\E r \in Runs : Mainline(r))
    /\ \A e \in Epics : WF_vars(Callback(e))
    /\ WF_vars(\E j \in DOMAIN jobs : downloadImg(j))

SpecLive == Init /\ [][NextHang]_vars /\ FairLive

\* generateSite called twice in succession by a caller of its own: the
\* second call is made once the promise of the first has resolved.  The
\* environment fails nothing, and the stories carry no description.
generateSiteAgain ==
    /\ Turn
    /\ nruns < MaxCalls
    /\ IF nruns = 0 THEN TRUE ELSE gen[nruns] = "resolved"
    /\ generateSiteCalled(nruns + 1)
    /\ UNCHANGED <<remote, disk, handler, cb, tracked, jobs, isGenerating,
                   isDone, alive, faults, errs, wrote, pdIn, pdOut>>

InitTwice == Start(MaxFaults, {<<>>})

NextTwice ==
    \/ generateSiteAgain
    \/ Work

SpecTwice == InitTwice /\ [][NextTwice]_vars

\* parseDescription applied to one description drawn from the bounded set,
\* in the context of a call whose setup is done.
InitParse ==
    /\ remote = [stories |-> [e \in Epics |-> 0], epicDescription |-> <<>>,
                 storyDescription |-> <<>>]
    /\ disk = Setup(NoDisk, "none").disk
    /\ nruns = 1
    /\ gen = [r \in Runs |-> IF r = 1 THEN "resolved" ELSE "none"]
    /\ handler = [r \in Runs |-> "none"]
    /\ cb = [r \in Runs |-> [e \in Epics |-> "none"]]
    /\ images = [r \in Runs |-> <<>>]
    /\ tracked = [r \in Runs |-> {}]
    /\ jobs = <<>>
    /\ isGenerating = FALSE
    /\ isDone = FALSE
    /\ alive = TRUE
    /\ faults = MaxFaults
    /\ errs = {}
    /\ wrote = {}
    /\ pdIn \in {Flatten(d) : d \in SegSeqs(MaxSegs)}
    /\ pdOut = [called |-> FALSE, html |-> <<>>, urls |-> <<>>]

Returned(st) ==
    /\ disk' = st.disk
    /\ jobs' = st.jobs
    /\ images' = [images EXCEPT ![1] = st.images]
    /\ pdOut' = [called |-> TRUE, html |-> st.html,
                 urls |-> [i \in DOMAIN st.jobs |-> st.jobs[i].url]]

parseDescriptionCalled ==
    /\ ~pdOut.called
    /\ \E st \in {Block(disk, jobs, images[1])} :
          \E rendered \in {Render(st, 1, EpicPath(1), pdIn, NoFault)} :
              Returned(rendered)
    /\ UNCHANGED <<remote, nruns, gen, handler, cb, tracked, isGenerating,
                   isDone, alive, faults, errs, wrote, pdIn>>

NextParse == parseDescriptionCalled \/ \E j \in DOMAIN jobs : downloadImg(j)

SpecParse == InitParse /\ [][NextParse]_vars

\* ------------------------------------------------------------------ claims
Finished(r) ==
    /\ gen[r] \in {"resolved", "rejected"}
    /\ gen[r] = "resolved" => \A e \in Epics : cb[r][e] \in {"returned", "rejected"}
    /\ \A j \in DOMAIN jobs : jobs[j].run = r => Settled(j)

\* Nothing more happens: the process has ended, or every call made has run
\* to its end with all its callbacks and downloads.
Stopped == ~alive \/ \A r \in 1..nruns : Finished(r)

\* The image references of a description whose URL is on the media host.
MediaRefs(description) ==
    IF description = Null THEN 0
    ELSE Cardinality({i \in DOMAIN description : description[i] = "M"})

RECURSIVE ObjectiveMediaRefs(_)
ObjectiveMediaRefs(e) ==
    IF e = 0 THEN 0
    ELSE MediaRefs(remote.epicDescription)
         + remote.stories[e] * MediaRefs(OrEmpty(remote.storyDescription))
         + ObjectiveMediaRefs(e - 1)

JobsOf(r) == {j \in DOMAIN jobs : jobs[j].run = r}

\* C1: when the build-complete signal of a run has been raised, no image
\* download of that run is still in flight.
C1_DoneOnlyAfterDownloads ==
    \A r \in Runs : handler[r] = "done" => \A j \in JobsOf(r) : Settled(j)

\* C2: when the promise of generateSite has resolved and no error occurred,
\* the home page, every epic page and every story page is on disk.
C2_ResolvedOnlyAfterPages ==
    \A r \in Runs :
        gen[r] = "resolved" /\ errs = {} => ObjectivePages \subseteq PagePaths(disk)

\* C3: in the step that declares a run complete, context.images holds
\* exactly one record for each media-host image reference of the
\* descriptions of the objective's epics and stories.
C3_JobPerImageAtCompletion ==
    [][\A r \in Runs :
          handler[r] # "done" /\ handler'[r] = "done" =>
              /\ Len(images[r]) = ObjectiveMediaRefs(MaxEpics)
              /\ Cardinality(Range(images[r])) = Len(images[r])]_vars

\* C4: a call whose objective fetch, epics-list fetch, creation of ./sites,
\* removal of the old site directory or creation of the new one failed has
\* written no page, and its promise is rejected.
TopLevelFailures ==
    {"getMilestone", "listMilestoneEpics", "mkdirSites", "rmSync", "mkdirSite"}

C4_TopLevelFailureAborts ==
    \A err \in errs :
        err.kind \in TopLevelFailures =>
            /\ gen[err.run] = "rejected"
            /\ \A w \in wrote : w.run # err.run

C4_Witness ==
    \E err \in errs :
        /\ err.kind = "rmSync"
        /\ gen[err.run] = "rejected"
        /\ disk = StaleDisk

\* C5: once nothing more happens, every epic whose own subtree raised no
\* error has its page and all its story pages on disk, also when the
\* subtree of another epic of the same call failed.
C5_OtherEpicsStillWritten ==
    \A r \in Runs, e \in Epics :
        /\ Stopped
        /\ gen[r] = "resolved"
        /\ cb[r][e] # "rejected"
        /\ \E other \in Epics \ {e} : cb[r][other] = "rejected"
        => /\ EpicPath(e) \in PagePaths(disk)
           /\ \A s \in Stories(e) : StoryPath(e, s) \in PagePaths(disk)

\* C6: a failed image download writes no file under imgs/, leaves the
\* promise of generateSite resolved and the handler out of its catch, is
\* not what rejected the callback that rendered the page, and the page was
\* written with the /imgs/<filename> reference unless its own write failed.
DownloadFailures == {"fetch", "notOk", "writeImage"}

PageWriteFailures == {"writeEpic", "writeStory"}

C6_DownloadFailureSwallowed ==
    \A j \in DOMAIN jobs :
        jobs[j].st = "failed" =>
            /\ jobs[j].filename \notin disk.imgs
            /\ gen[jobs[j].run] = "resolved"
            /\ handler[jobs[j].run] # "caught"
            /\ cb[jobs[j].run][jobs[j].page[1]] = "rejected" =>
                  \E err \in errs :
                      /\ err.run = jobs[j].run
                      /\ err.kind \notin DownloadFailures
                      /\ err.scope # <<>>
                      /\ err.scope[1] = jobs[j].page[1]
            /\ \/ \E w \in wrote :
                      /\ w.run = jobs[j].run
                      /\ w.path = jobs[j].page
                      /\ Local(jobs[j].filename) \in Range(w.body)
               \/ \E err \in errs :
                      /\ err.run = jobs[j].run
                      /\ err.scope = jobs[j].page
                      /\ err.kind \in PageWriteFailures

C6_Witness ==
    \E j \in DOMAIN jobs :
        /\ jobs[j].st = "failed"
        /\ Len(jobs[j].page) = 2
        /\ Err(jobs[j].run, jobs[j].page, "notOk") \in errs
        /\ \E pg \in disk.pages :
              pg.path = jobs[j].page /\ Local(jobs[j].filename) \in Range(pg.body)

\* C7: every failed file-system operation of a call is observed by the
\* catch of the handler that made the call (or is about to be: the promise
\* is rejected and the handler is ready to resume).
FsFailures ==
    {"mkdirSites", "rmSync", "mkdirSite", "writeHome", "mkdirEpic", "writeEpic",
     "mkdirStory", "writeStory", "mkdirImgs", "writeImage"}

C7_FsFailureReachesCaller ==
    \A err \in errs :
        err.kind \in FsFailures =>
            \/ handler[err.run] = "caught"
            \/ handler[err.run] = "awaitGenerate" /\ gen[err.run] = "rejected"

\* C8: after two calls of generateSite in succession on an objective whose
\* epics all carry a description, once nothing more happens, the pages on
\* disk are those one call leaves: the home page, one page per epic and one
\* per story.
C8_TwiceSameTree ==
    nruns = 2 /\ Stopped /\ remote.epicDescription # Null
    => PagePaths(disk) = ObjectivePages

\* C9: after a call in which no error occurred, once nothing more happens,
\* the pages on disk are exactly the home page, one page per epic and one
\* page per story, the directories are exactly those of the epics and
\* stories, and an epic's page has the story navigation iff it has stories.
C9_PagesOfErrorFreeRun ==
    /\ errs = {}
    /\ Stopped
    /\ \E r \in Runs : gen[r] = "resolved"
    => /\ PagePaths(disk) = ObjectivePages
       /\ disk.dirs = ObjectivePages \ {HomePath}
       /\ \A pg \in disk.pages :
              Len(pg.path) = 1 => (pg.nav <=> remote.stories[pg.path[1]] > 0)

C9_Witness ==
    /\ errs = {}
    /\ Stopped
    /\ \E r \in Runs : gen[r] = "resolved"
    /\ remote.stories[1] = MaxStories
    /\ remote.stories[2] = 0
    /\ PagePaths(disk) = ObjectivePages

\* C10: for a description with at least one image reference on the media
\* host, parseDescription makes one record per such reference, its output
\* refers to /imgs/<filename> for each record, and no media-host URL is
\* left in the output.
C10_EveryMediaImageRelocated ==
    pdOut.called /\ MediaRefs(pdIn) >= 1 =>
        /\ Len(jobs) = MediaRefs(pdIn)
        /\ "M" \notin Range(pdOut.html)
        /\ \A j \in DOMAIN jobs : Local(jobs[j].filename) \in Range(pdOut.html)

\* C11: an epic or story whose description is empty or missing gets its page
\* written with an empty rendered description, and rendering it raises no
\* error in the subtree.
C11_EmptyDescriptionRendersEmpty ==
    \A r \in Runs, e \in Epics :
        /\ Err(r, EpicPath(e), "TypeError") \notin errs
        /\ \A s \in Stories(e) : Err(r, StoryPath(e, s), "TypeError") \notin errs
        /\ cb[r][e] = "returned" /\ remote.epicDescription \in {Null, <<>>}
           => [run |-> r, path |-> EpicPath(e), body |-> <<>>] \in wrote
        /\ cb[r][e] = "returned" /\ remote.storyDescription \in {Null, <<>>}
           => \A s \in Stories(e) :
                  [run |-> r, path |-> StoryPath(e, s), body |-> <<>>] \in wrote

\* C12: in the step in which downloadImage is called, the record is appended
\* to context.images with its download still pending and the filename is
\* already embedded in the page written by that step (unless the write of
\* the page itself failed); the filename and URL of a record stay what they
\* were whatever becomes of the download.
C12_FilenameReturnedAtOnce ==
    [][\A j \in DOMAIN jobs' :
          /\ j \notin DOMAIN jobs =>
                /\ jobs'[j].st = "pending"
                /\ j \in Range(images'[jobs'[j].run])
                /\ \/ \E w \in wrote' :
                          /\ w.run = jobs'[j].run
                          /\ w.path = jobs'[j].page
                          /\ Local(jobs'[j].filename) \in Range(w.body)
                   \/ \E err \in errs' :
                          /\ err.run = jobs'[j].run
                          /\ err.scope = jobs'[j].page
                          /\ err.kind \in PageWriteFailures
          /\ j \in DOMAIN jobs =>
                /\ jobs'[j].filename = jobs[j].filename
                /\ jobs'[j].url = jobs[j].url]_vars

C12_Witness ==
    \E j \in DOMAIN jobs :
        /\ jobs[j].st = "failed"
        /\ Len(jobs[j].page) = 1
        /\ Err(jobs[j].run, jobs[j].page, "fetch") \in errs
        /\ j \in Range(images[jobs[j].run])
        /\ \E pg \in disk.pages :
              pg.path = jobs[j].page /\ Local(jobs[j].filename) \in Range(pg.body)

\* The pages of epic e and of its stories are on disk.
SubtreeWritten(e) ==
    /\ EpicPath(e) \in PagePaths(disk)
    /\ \A s \in Stories(e) : StoryPath(e, s) \in PagePaths(disk)

\* C13: a callback whose request has not come back has written nothing of
\* its subtree, and while the requests of one epic stay unanswered, every
\* other epic whose callback was started gets its page and all its story
\* pages written, in a run in which nothing fails.
C13_HungSubtreeStallsAlone ==
    /\ [](\A r \in Runs, e \in Epics :
             cb[r][e] \in {"getEpic", "listEpicStories"} =>
                 \A w \in wrote :
                     w.run = r /\ w.path # HomePath => w.path[1] # e)
    /\ \A e \in Epics \ {HungEpic} :
           (\E r \in Runs : cb[r][e] = "getEpic")
               ~> (SubtreeWritten(e) \/ errs # {})

C13_Witness ==
    /\ cb[1][HungEpic] = "getEpic"
    /\ cb[1][2] = "returned"
    /\ remote.stories[2] = MaxStories
    /\ SubtreeWritten(2)
    /\ errs = {}

\* C14: whenever the page of a story is on disk, the page of its epic is on
\* disk too.
C14_EpicPageBeforeStoryPages ==
    \A e \in Epics, s \in 1..MaxStories :
        StoryPath(e, s) \in PagePaths(disk) => EpicPath(e) \in PagePaths(disk)

C14_Witness ==
    \E e \in Epics :
        /\ Err(1, StoryPath(e, 2), "writeStory") \in errs
        /\ StoryPath(e, 1) \in PagePaths(disk)
        /\ StoryPath(e, 2) \notin PagePaths(disk)
        /\ EpicPath(e) \in PagePaths(disk)

\* C15: in an execution with one call of generateSite, when the callback of
\* an epic starts to write, no directory or page of its subtree exists yet;
\* the call writes no page path twice, and no two image records share a
\* filename.
C15_SubtreesWriteDisjointPaths ==
    [][nruns' = 1 =>
          /\ \A r \in Runs, e \in Epics :
                cb[r][e] = "listEpicStories" /\ cb'[r][e] # "listEpicStories" =>
                    /\ EpicPath(e) \notin disk.dirs \cup PagePaths(disk)
                    /\ \A s \in 1..MaxStories :
                          StoryPath(e, s) \notin disk.dirs \cup PagePaths(disk)
          /\ \A w1, w2 \in wrote' :
                w1.run = w2.run /\ w1.path = w2.path => w1 = w2
          /\ \A i, j \in DOMAIN jobs' :
                jobs'[i].filename = jobs'[j].filename => i = j]_vars

C15_Witness ==
    /\ \A e \in Epics : cb[1][e] = "returned" /\ remote.stories[e] = MaxStories
    /\ Cardinality({w \in wrote : w.run = 1}) = Cardinality(ObjectivePages)
    /\ Len(jobs) > MaxEpics
    /\ disk.imgsDir

\* C16: the handler of a call has handed promises to Promise.all only if the
\* promise of generateSite has resolved; after a rejection it is in its
\* catch, or still about to resume, and has tracked nothing.
C16_TrackerOnlyAfterResolve ==
    \A r \in Runs :
        /\ handler[r] \in {"tracking", "done"} => gen[r] = "resolved"
        /\ gen[r] = "rejected" =>
              /\ handler[r] \in {"awaitGenerate", "caught"}
              /\ tracked[r] = {}
        /\ gen[r] \notin {"resolved", "rejected"} =>
              handler[r] \in {"none", "awaitGenerate"}

C16_Witness ==
    \E r \in Runs : handler[r] = "tracking" /\ gen[r] = "resolved" /\ ~isDone

\* C17: once every callback of a call has ended, context.images holds every
\* record made for the call by downloadImage, each exactly once.
C17_NoAppendLost ==
    \A r \in Runs :
        /\ gen[r] = "resolved"
        /\ \A e \in Epics : cb[r][e] \in {"returned", "rejected"}
        => /\ Range(images[r]) = JobsOf(r)
           /\ Len(images[r]) = Cardinality(JobsOf(r))

C17_Witness ==
    /\ handler[1] = "done"
    /\ \A e \in Epics : cb[1][e] \in {"returned", "rejected"}
    /\ \E i, j \in Range(images[1]) : jobs[i].page[1] # jobs[j].page[1]

\* C18: the promise of a record settles once: a settled record never changes
\* again, a pending one keeps its URL, filename and page; whatever the
\* outcome of the download, the step that settles it raises no rejection
\* (the process goes on, no handler enters its catch), and a handler that
\* waits on the promises can only go on to done.
C18_HandleSettlesOnceFulfilled ==
    [][/\ \A j \in DOMAIN jobs :
             /\ j \in DOMAIN jobs'
             /\ Settled(j) => jobs'[j] = jobs[j]
             /\ [jobs'[j] EXCEPT !.st = "pending"] = [jobs[j] EXCEPT !.st = "pending"]
             /\ jobs[j].st = "pending" /\ jobs'[j].st # "pending" =>
                   /\ jobs'[j].st \in {"saved", "failed"}
                   /\ alive' = alive
                   /\ handler' = handler
       /\ \A r \in Runs :
             handler[r] = "tracking" => handler'[r] \in {"tracking", "done"}]_vars

C18_Witness ==
    /\ \E j \in DOMAIN jobs : Err(jobs[j].run, jobs[j].page, "writeImage") \in errs
    /\ \E j \in DOMAIN jobs : jobs[j].st = "saved"
    /\ alive

\* The errors raised inside the subtree of an epic.
SubtreeFailures ==
    {"getEpic", "listEpicStories", "mkdirEpic", "writeEpic", "mkdirStory",
     "writeStory", "mkdirImgs", "TypeError"}

\* C19: when an error has been raised inside the subtree of an epic, or a
\* callback has ended by a rejection, the promise of generateSite of that
\* call is resolved and its done signal has been raised.
C19_SubtreeErrorKeepsDone ==
    /\ \A err \in errs :
          err.kind \in SubtreeFailures =>
              /\ gen[err.run] = "resolved"
              /\ handler[err.run] = "done"
              /\ isDone
    /\ \A r \in Runs, e \in Epics :
          cb[r][e] = "rejected" => gen[r] = "resolved" /\ handler[r] = "done"

C19_Witness ==
    /\ \A e \in Epics : cb[1][e] = "rejected"
    /\ gen[1] = "resolved"
    /\ handler[1] = "done"
    /\ isDone
    /\ PagePaths(disk) = {HomePath}

\* The requests of generateSite.
RemoteFailures == {"getMilestone", "listMilestoneEpics", "getEpic", "listEpicStories"}

\* Done has been signalled and every page of the objective is on disk.
DoneAndWritten == isDone /\ ObjectivePages \subseteq PagePaths(disk)

====
